---- MODULE Spec2Model ----
(***************************************************************************)
(* Model of src/server.js: an Express application over three MongoDB       *)
(* collections (topics, questions, responses) with four endpoints.         *)
(*                                                                         *)
(* Strings that the code inspects character by character (topic names,     *)
(* request parameters) are sequences of one-character strings; strings the *)
(* code only compares or copies (option texts, letters) are plain strings. *)
(*                                                                         *)
(* One step of a handler is the synchronous code that runs between two     *)
(* awaits together with the store operation the segment ends in; the store *)
(* executes that operation atomically.  Other requests and the seeding     *)
(* process interleave between the steps, in particular between the last    *)
(* store operation of a handler and the response it sends.                 *)
(***************************************************************************)
EXTENDS Integers, Sequences, FiniteSets, TLC

VARIABLES
    readyState,   \* mongoose.connection.readyState: 2 connecting, 1 connected, 0 disconnected
    running,      \* FALSE once process.exit(1) ran
    topics,       \* Topic collection: the set of stored names
    questions,    \* Question collection: the set of stored Question documents
    responses,    \* Response collection: the set of stored Response documents
    rq,           \* rq[r]: request r, its handler's locals and its HTTP response
    seeded        \* number of documents the seeding process has inserted

vars == <<readyState, running, topics, questions, responses, rq, seeded>>

\* ---------------------------------------------------------------- bounds

MaxReq == 2
MaxSeed == 3

ReqIds == 1..MaxReq

\* ------------------------------------------------------- string helpers

\* String.prototype.toLowerCase on the model's alphabet (the "i" flag folds case).
Lower(c) ==
    CASE c = "A" -> "a"
      [] c = "B" -> "b"
      [] OTHER -> c

LowerStr(s) == [i \in 1..Len(s) |-> Lower(s[i])]

\* Equality up to letter case: the meaning the documentation gives the lookups.
EqIgnoreCase(s, t) == LowerStr(s) = LowerStr(t)

RECURSIVE TrimLeft(_)
TrimLeft(s) == IF s # <<>> /\ Head(s) = " " THEN TrimLeft(Tail(s)) ELSE s

RECURSIVE TrimRight(_)
TrimRight(s) ==
    IF s # <<>> /\ s[Len(s)] = " " THEN TrimRight(SubSeq(s, 1, Len(s) - 1)) ELSE s

\* String.prototype.trim
Trim(s) == TrimRight(TrimLeft(s))

\* ------------------------------------------------- decodeURIComponent

HexDigits == {"1", "4", "a", "b", "A", "B"}

\* The character a percent-escaped byte stands for: a set holding it, or the
\* empty set when the byte is no complete UTF-8 sequence (0x80 and above, here
\* the bytes whose first digit is a..b) and decodeURIComponent throws URIError.
PctChar(h1, h2) ==
    CASE h1 = "4" /\ h2 = "1" -> {"A"}
      [] h1 = "4" /\ h2 = "4" -> {"D"}
      [] h1 = "4" /\ h2 \in {"a", "A"} -> {"J"}
      [] h1 = "4" /\ h2 \in {"b", "B"} -> {"K"}
      [] h1 = "1" -> {"ctl"}
      [] OTHER -> {}

\* decodeURIComponent(s): a set holding the decoded string, or the empty set
\* when it throws URIError (a "%" not followed by two hex digits, or a byte
\* that is no character).
RECURSIVE DecodeURIComponent(_)
DecodeURIComponent(s) ==
    IF s = <<>> THEN {<<>>}
    ELSE IF Head(s) # "%"
         THEN {<<Head(s)>> \o t : t \in DecodeURIComponent(Tail(s))}
    ELSE IF Len(s) < 3 \/ s[2] \notin HexDigits \/ s[3] \notin HexDigits THEN {}
    ELSE {<<c>> \o t : c \in PctChar(s[2], s[3]),
                       t \in DecodeURIComponent(SubSeq(s, 4, Len(s)))}

\* ------------------------------------------------------------- RegExp
\* new RegExp(`^${src}$`, "i") for sources over the model's alphabet, in which
\* "." (any character) and "+" (one or more of the preceding atom) are the
\* only characters with a meaning of their own.

\* new RegExp throws SyntaxError ("Nothing to repeat") when a "+" has no atom
\* before it: right after "^" or right after another "+".
RegExpValid(src) ==
    \A i \in 1..Len(src) : src[i] = "+" => (i > 1 /\ src[i - 1] # "+")

AtomMatches(atom, c) == atom = "." \/ Lower(atom) = Lower(c)

RECURSIVE MatchFrom(_, _, _, _)
MatchFrom(src, i, s, j) ==
    IF i > Len(src) THEN j > Len(s)
    ELSE IF i < Len(src) /\ src[i + 1] = "+"
         THEN /\ j <= Len(s)
              /\ AtomMatches(src[i], s[j])
              /\ (MatchFrom(src, i + 2, s, j + 1) \/ MatchFrom(src, i, s, j + 1))
    ELSE /\ j <= Len(s)
         /\ AtomMatches(src[i], s[j])
         /\ MatchFrom(src, i + 1, s, j + 1)

\* { field: { $regex: new RegExp(`^${src}$`, "i") } } applied to one value
RegExpTest(src, s) == MatchFrom(src, 1, s, 1)

\* ---------------------------------------------------------- JSON values
\* A value of the request body, or a value the handler computes from one.

JStr(v) == [t |-> "str", v |-> v]
JNum(v) == [t |-> "num", v |-> v]
JObj == [t |-> "obj", v |-> ""]
JAbsent == [t |-> "absent", v |-> ""]
JUndefined == [t |-> "undefined", v |-> ""]

\* ToBoolean: what `!x` and `x || y` test
Truthy(j) ==
    CASE j.t = "str" -> j.v # ""
      [] j.t = "num" -> j.v # "0"
      [] j.t = "obj" -> TRUE
      [] OTHER -> FALSE

\* a === b, for operands of which at most one is an object
StrictEquals(a, b) == a.t = b.t /\ a.t # "obj" /\ a.v = b.v

\* --------------------------------------------------------- the documents

\* Question documents the seeding process may insert (schema, lines 39-44).
\* Q1 is the documentation's example; Q2's answer is none of its options; Q3's
\* answer first occurs at index 4 of its options.
Q1 == [id |-> 1, topic |-> <<"a">>, question |-> "Q1",
       options |-> <<"2", "3", "4", "5">>, answer |-> "4"]
Q2 == [id |-> 2, topic |-> <<"A">>, question |-> "Q2",
       options |-> <<"x", "y">>, answer |-> "z"]
Q3 == [id |-> 3, topic |-> <<".">>, question |-> "Q3",
       options |-> <<"p", "q", "r", "s", "t", "t">>, answer |-> "t"]

QSeq == <<Q1, Q2, Q3>>
QDocs == {QSeq[i] : i \in 1..Len(QSeq)}
QIds == {q.id : q \in QDocs}

\* The documents among them that the specification of all endpoints draws from.
CoreQDocs == {Q1, Q2}

\* Topic names the seeding process may insert (schema, lines 35-37: trimmed,
\* required, unique).
TopicNames == {<<"a">>, <<"b">>, <<".">>}

\* The names among them that the specification of all endpoints draws from.
CoreTopicNames == {<<"a">>}

\* ------------------------------------------------------------ the inputs

\* req.params.topic of GET /questions/:topic
Params == {<<"a">>, <<"b">>, <<"%", "4", "1", " ">>, <<".">>, <<"+">>, <<"%">>}

CoreParams == {<<"a">>, <<"+">>}

Answers(a1, a2, a3) == [i \in QIds |-> CASE i = 1 -> a1 [] i = 2 -> a2 [] OTHER -> a3]

\* req.body of POST /submit.  An absent field is the empty set, a present one
\* the set holding its value.
Body(user, topic, answers) == [user |-> user, topic |-> topic, answers |-> answers]

EmptyBody == Body(JAbsent, {}, {})

CoreBodies == {
    EmptyBody,
    Body(JStr("u"), {<<"a">>}, {Answers(JStr("C"), JStr("A"), JAbsent)}),
    Body(JStr("u"), {<<"a">>}, {Answers(JStr("A"), JAbsent, JAbsent)}) }

Bodies == CoreBodies \cup {
    Body(JStr("u"), {<<"a">>}, {}),
    Body(JStr(""), {<<"a">>}, {Answers(JStr("C"), JStr("A"), JStr("A"))}),
    Body(JStr("u"), {<<"+">>}, {Answers(JStr("C"), JStr("A"), JStr("A"))}),
    Body(JStr("u"), {<<".">>}, {Answers(JStr("c"), JNum("7"), JStr("E"))}),
    Body(JStr("u"), {<<".">>}, {Answers(JStr("C"), JStr("B"), JStr("D"))}),
    Body(JStr("u"), {<<".">>}, {Answers(JStr("C"), JObj, JStr("A"))}) }

\* ------------------------------------------------------------ the state

NoLocals == [
    topicParam |-> <<>>,    \* line 83
    topicExists |-> {},     \* line 86: the document findOne gave, if any
    names |-> {},           \* lines 72, 93: the names a Topic query gave
    questions |-> {},       \* lines 97, 127: the documents Question.find gave
    score |-> 0,            \* line 135
    responseAnswers |-> <<>>,  \* line 136
    threw |-> "",           \* the error an awaited call rejected with, if any
    topicsAtCheck |-> {},   \* history: the Topic collection when findOne ran
    questionsAtQuery |-> {},  \* history: the Question collection at the second query
    queries |-> 0 ]         \* history: store operations issued

NoResponse == [
    status |-> 0,           \* 0: nothing sent yet
    error |-> "",
    details |-> "",         \* err.message, here the kind of error caught
    database |-> "",
    names |-> {},           \* GET /topics: the array; 404: suggestions
    docs |-> {},            \* GET /questions: the array
    score |-> 0, total |-> 0, percentage |-> 0, results |-> <<>> ]

NoRequest == [kind |-> "none", pc |-> "idle", param |-> <<>>, body |-> EmptyBody,
              loc |-> NoLocals, res |-> NoResponse]

Init ==
    /\ readyState = 2
    /\ running = TRUE
    /\ topics = {}
    /\ questions = {}
    /\ responses = {}
    /\ rq = [r \in ReqIds |-> NoRequest]
    /\ seeded = 0

\* A new request is accepted by the listening process (lines 189-194: listen
\* is called at load time, before the connection attempt settles).
CanArrive(r) ==
    /\ running
    /\ rq[r].kind = "none"
    /\ r > 1 => rq[r - 1].kind # "none"

\* Mongoose buffers a model's operations until the connection is open.
StoreOpen == running /\ readyState = 1

\* res.status(500).json({ error, details: err.message })
Failure(error, details) ==
    [NoResponse EXCEPT !.status = 500, !.error = error, !.details = details]

\* What an awaited store call gives: its result, or a rejection.
StoreOutcomes == {"", "MongoError"}

Send(r, req, fields) ==
    rq' = [rq EXCEPT ![r] = [req EXCEPT !.pc = "done", !.res = fields]]

\* ----------------------------------------------------- connection, seeding

\* lines 23-28: the connection attempt succeeds
Connect ==
    /\ running /\ readyState = 2
    /\ readyState' = 1
    /\ UNCHANGED <<running, topics, questions, responses, rq, seeded>>

\* Mutant: the rejection handler logs the error and the process keeps serving.
ConnectFailNoExit ==
    /\ running /\ readyState = 2
    /\ readyState' = 0
    /\ UNCHANGED <<running, topics, questions, responses, rq, seeded>>

\* lines 29-32: the attempt fails; the rejection handler ends the process
ConnectFail ==
    /\ running /\ readyState = 2
    /\ readyState' = 0
    /\ running' = FALSE
    /\ UNCHANGED <<topics, questions, responses, rq, seeded>>

\* The seeding process, outside this service, inserts a Topic (unique name).
SeedTopic(names) ==
    /\ seeded < MaxSeed
    /\ \E n \in names \ topics : topics' = topics \cup {n}
    /\ seeded' = seeded + 1
    /\ UNCHANGED <<readyState, running, questions, responses, rq>>

\* The seeding process inserts a Question.
SeedQuestion(docs) ==
    /\ seeded < MaxSeed
    /\ \E q \in docs \ questions : questions' = questions \cup {q}
    /\ seeded' = seeded + 1
    /\ UNCHANGED <<readyState, running, topics, responses, rq>>

\* ------------------------------------------------------------ GET /health

\* lines 59-65 (the timestamp is left out)
Health(r) ==
    /\ CanArrive(r)
    /\ Send(r, [rq[r] EXCEPT !.kind = "health"],
            [NoResponse EXCEPT !.status = 200,
                !.database = IF readyState = 1 THEN "Connected" ELSE "Disconnected"])
    /\ UNCHANGED <<readyState, running, topics, questions, responses, seeded>>

\* ------------------------------------------------------------ GET /topics

\* lines 70-72: Topic.find().select('name -_id') runs, or rejects
GetTopics(r) ==
    /\ CanArrive(r) /\ StoreOpen
    /\ \E e \in StoreOutcomes :
         rq' = [rq EXCEPT ![r] = [@ EXCEPT !.kind = "topics", !.pc = "listed",
                    !.loc.names = IF e = "" THEN topics ELSE {},
                    !.loc.threw = e,
                    !.loc.queries = 1]]
    /\ UNCHANGED <<readyState, running, topics, questions, responses, seeded>>

\* lines 73-77
TopicsRespond(r) ==
    /\ running /\ rq[r].kind = "topics" /\ rq[r].pc = "listed"
    /\ IF rq[r].loc.threw # ""
       THEN Send(r, rq[r], Failure("Failed to fetch topics", rq[r].loc.threw))
       ELSE Send(r, rq[r], [NoResponse EXCEPT !.status = 200,
                                !.names = rq[r].loc.names])
    /\ UNCHANGED <<readyState, running, topics, questions, responses, seeded>>

\* ---------------------------------------------------- GET /questions/:topic

\* Topic.findOne({ name: { $regex: new RegExp(`^${src}$`, "i") } }): the names
\* the pattern matches; the store gives one document of them, or none.
TopicMatches(src) == {n \in topics : RegExpTest(src, n)}

\* Question.find({ topic: { $regex: new RegExp(`^${src}$`, "i") } })
QuestionFind(src) == {q \in questions : RegExpTest(src, q.topic)}

\* lines 81-88: decode and trim the parameter, build the pattern, run findOne.
\* decodeURIComponent or new RegExp may throw, and the catch answers 500.
QuestionsArrive(r, params) ==
    /\ CanArrive(r)
    /\ \E p \in params :
         LET req == [rq[r] EXCEPT !.kind = "questions", !.param = p]
             dec == DecodeURIComponent(p)
         IN  IF dec = {}
             THEN Send(r, req, Failure("Failed to fetch questions", "URIError"))
             ELSE IF \E d \in dec : ~RegExpValid(Trim(d))
             THEN Send(r, req, Failure("Failed to fetch questions", "SyntaxError"))
             ELSE /\ StoreOpen
                  /\ \E d \in dec, e \in StoreOutcomes :
                       \E found \in IF e = "" /\ TopicMatches(Trim(d)) # {}
                                    THEN {{n} : n \in TopicMatches(Trim(d))}
                                    ELSE {{}} :
                         rq' = [rq EXCEPT ![r] = [req EXCEPT !.pc = "lookedUp",
                                    !.loc.topicParam = Trim(d),
                                    !.loc.topicExists = found,
                                    !.loc.threw = e,
                                    !.loc.topicsAtCheck = topics,
                                    !.loc.queries = 1]]
    /\ UNCHANGED <<readyState, running, topics, questions, responses, seeded>>

\* lines 90-99: no topic: query the names for the suggestions; a topic: build
\* the pattern from its stored name and fetch its questions.
QuestionsContinue(r) ==
    /\ running /\ rq[r].kind = "questions" /\ rq[r].pc = "lookedUp"
    /\ LET loc == rq[r].loc IN
       IF loc.threw # ""
       THEN Send(r, rq[r], Failure("Failed to fetch questions", loc.threw))
       ELSE IF \E n \in loc.topicExists : ~RegExpValid(n)
       THEN Send(r, rq[r], Failure("Failed to fetch questions", "SyntaxError"))
       ELSE \E e \in StoreOutcomes :
              IF loc.topicExists = {}
              THEN rq' = [rq EXCEPT ![r].pc = "suggested",
                             ![r].loc.names = IF e = "" THEN topics ELSE {},
                             ![r].loc.threw = e,
                             ![r].loc.questionsAtQuery = questions,
                             ![r].loc.queries = 2]
              ELSE \E n \in loc.topicExists :
                     rq' = [rq EXCEPT ![r].pc = "fetched",
                             ![r].loc.questions = IF e = "" THEN QuestionFind(n) ELSE {},
                             ![r].loc.threw = e,
                             ![r].loc.questionsAtQuery = questions,
                             ![r].loc.queries = 2]
    /\ UNCHANGED <<readyState, running, topics, questions, responses, seeded>>

\* lines 91-94 and 101-115: the response
QuestionsRespond(r) ==
    /\ running /\ rq[r].kind = "questions" /\ rq[r].pc \in {"suggested", "fetched"}
    /\ LET loc == rq[r].loc IN
       IF loc.threw # ""
       THEN Send(r, rq[r], Failure("Failed to fetch questions", loc.threw))
       ELSE IF rq[r].pc = "suggested"
       THEN Send(r, rq[r], [NoResponse EXCEPT !.status = 404,
                                !.error = "Topic not found", !.names = loc.names])
       ELSE IF loc.questions = {}
       THEN Send(r, rq[r], [NoResponse EXCEPT !.status = 404,
                                !.error = "No questions found for this topic"])
       ELSE Send(r, rq[r], [NoResponse EXCEPT !.status = 200, !.docs = loc.questions])
    /\ UNCHANGED <<readyState, running, topics, questions, responses, seeded>>

\* ------------------------------------------------------------ POST /submit

\* line 140: options.findIndex(opt => opt === q.answer), 0-based, -1 if none
FindIndex(options, answer) ==
    IF \E i \in 1..Len(options) : options[i] = answer
    THEN (CHOOSE i \in 1..Len(options) :
             /\ options[i] = answer
             /\ \A k \in 1..(i - 1) : options[k] # answer) - 1
    ELSE -1

OptionKeys == <<"A", "B", "C", "D">>

\* Mutant: an index of -1 is clamped to 0, so a missing answer gets the key 'A'.
CorrectOptionKeyClamped(q) ==
    LET i == FindIndex(q.options, q.answer)
    IN  IF i < Len(OptionKeys)
        THEN JStr(OptionKeys[(IF i < 0 THEN 0 ELSE i) + 1])
        ELSE JUndefined

\* line 141: ['A', 'B', 'C', 'D'][correctOptionIndex]
CorrectOptionKey(q) ==
    LET i == FindIndex(q.options, q.answer)
    IN  IF 0 <= i /\ i < Len(OptionKeys) THEN JStr(OptionKeys[i + 1]) ELSE JUndefined

\* line 137: answers[q._id] || ''
UserAnswer(answers, q) == IF Truthy(answers[q.id]) THEN answers[q.id] ELSE JStr("")

\* Mutant: the letters are compared without regard to case.
IsCorrectIgnoreCase(answers, q) ==
    LET u == UserAnswer(answers, q)
        k == CorrectOptionKey(q)
    IN  u.t = "str" /\ k.t = "str"
        /\ (IF u.v \in {"a", "b", "c", "d"}
            THEN (CASE u.v = "a" -> "A" [] u.v = "b" -> "B" [] u.v = "c" -> "C" [] OTHER -> "D")
            ELSE u.v) = k.v

\* line 144
IsCorrect(answers, q) == StrictEquals(UserAnswer(answers, q), CorrectOptionKey(q))

\* Question.find gives the documents in the store's order (here: by id).
InOrder(qs) == SelectSeq(QSeq, LAMBDA q : q \in qs)

\* lines 136-153: questions.map(...)
ResponseAnswers(answers, qs) ==
    [i \in 1..Len(InOrder(qs)) |->
        LET q == InOrder(qs)[i]
        IN  [question |-> q.question,
             selected |-> UserAnswer(answers, q),
             correct |-> IsCorrect(answers, q),
             correctAnswer |-> q.answer]]

CountCorrect(ra) == Cardinality({i \in 1..Len(ra) : ra[i].correct})

\* Mutant: score is declared once for the module and never reset, so an
\* invocation starts from the count another invocation left.
InitialScoreShared(r) ==
    IF \E o \in ReqIds \ {r} : rq[o].loc.score > 0
    THEN rq[CHOOSE o \in ReqIds \ {r} : rq[o].loc.score > 0].loc.score
    ELSE 0

\* line 135: let score = 0, local to one invocation of the handler
InitialScore(r) == 0

\* Mutant: score++ runs for every question, outside the if.
ScoreCountsAll(r, ra) == InitialScore(r) + Len(ra)

\* lines 135, 145: the count the map's callback accumulates
Score(r, ra) == InitialScore(r) + CountCorrect(ra)

\* line 167: Math.round((score / questions.length) * 100), halves rounded up
Percentage(score, total) == (200 * score + total) \div (2 * total)

\* Mongoose's cast of a value to the schema type String: the set holding the
\* string, or the empty set for a CastError (a plain object).
CastString(j) ==
    CASE j.t = "str" -> {j.v}
      [] j.t = "num" -> {j.v}
      [] OTHER -> {}

\* lines 46-56: the validation save() runs.  A required String path rejects
\* a value that casts to no string or to the empty string.
RequiredString(j) == CastString(j) # {} /\ "" \notin CastString(j)

ResponseValid(user, ra) ==
    /\ RequiredString(user)
    /\ \A i \in 1..Len(ra) : RequiredString(ra[i].selected)

\* lines 156-161: the document as stored (the schema has no correctAnswer
\* path; rid stands for the document's _id)
ResponseDoc(r, user, topic, score, ra) ==
    [rid |-> r,
     user |-> CHOOSE u \in CastString(user) : TRUE,
     topic |-> topic,
     score |-> score,
     answers |-> [i \in 1..Len(ra) |->
                    [question |-> ra[i].question,
                     selected |-> CHOOSE v \in CastString(ra[i].selected) : TRUE,
                     correct |-> ra[i].correct]]]

\* Mutant: && for ||, so only a body missing all three fields is rejected.
MissingFieldsAll(b) == ~Truthy(b.user) /\ b.topic \subseteq {<<>>} /\ b.answers = {}

\* line 123: !user || !topic || !answers
MissingFields(b) == ~Truthy(b.user) \/ b.topic \subseteq {<<>>} \/ b.answers = {}

\* lines 119-129: validate, build the pattern, run Question.find
SubmitArrive(r, bodies) ==
    /\ CanArrive(r)
    /\ \E b \in bodies :
         LET req == [rq[r] EXCEPT !.kind = "submit", !.body = b] IN
         IF MissingFields(b)
         THEN Send(r, req, [NoResponse EXCEPT !.status = 400,
                                !.error = "Missing required fields"])
         ELSE IF \E t \in b.topic : ~RegExpValid(t)
         THEN Send(r, req, Failure("Failed to submit quiz", "SyntaxError"))
         ELSE /\ StoreOpen
              /\ \E t \in b.topic, e \in StoreOutcomes :
                   rq' = [rq EXCEPT ![r] = [req EXCEPT !.pc = "fetched",
                              !.loc.questions = IF e = "" THEN QuestionFind(t) ELSE {},
                              !.loc.threw = e,
                              !.loc.queries = 1]]
    /\ UNCHANGED <<readyState, running, topics, questions, responses, seeded>>

\* lines 131-162: no questions: 404; else score the answers and save the
\* Response, which the store accepts or rejects.
SubmitScore(r) ==
    /\ running /\ rq[r].kind = "submit" /\ rq[r].pc = "fetched"
    /\ LET loc == rq[r].loc
           b == rq[r].body
       IN  IF loc.threw # ""
           THEN /\ Send(r, rq[r], Failure("Failed to submit quiz", loc.threw))
                /\ UNCHANGED responses
           ELSE IF loc.questions = {}
           THEN /\ Send(r, rq[r], [NoResponse EXCEPT !.status = 404,
                                       !.error = "No questions found for this topic"])
                /\ UNCHANGED responses
           ELSE \E answers \in b.answers, t \in b.topic, e \in StoreOutcomes :
                  LET ra == ResponseAnswers(answers, loc.questions)
                      score == Score(r, ra)
                      saved == e = "" /\ ResponseValid(b.user, ra)
                  IN  /\ rq' = [rq EXCEPT ![r].pc = "saved",
                                   ![r].loc.score = score,
                                   ![r].loc.responseAnswers = ra,
                                   ![r].loc.threw = IF ResponseValid(b.user, ra)
                                                    THEN e ELSE "ValidationError",
                                   ![r].loc.queries = 2]
                      /\ responses' = IF saved
                                      THEN responses \cup {ResponseDoc(r, b.user, t, score, ra)}
                                      ELSE responses
    /\ UNCHANGED <<readyState, running, topics, questions, seeded>>

\* lines 164-176
SubmitRespond(r) ==
    /\ running /\ rq[r].kind = "submit" /\ rq[r].pc = "saved"
    /\ LET loc == rq[r].loc IN
       IF loc.threw # ""
       THEN Send(r, rq[r], Failure("Failed to submit quiz", loc.threw))
       ELSE Send(r, rq[r], [NoResponse EXCEPT !.status = 200,
                                !.score = loc.score,
                                !.total = Cardinality(loc.questions),
                                !.percentage = Percentage(loc.score, Cardinality(loc.questions)),
                                !.results = loc.responseAnswers])
    /\ UNCHANGED <<readyState, running, topics, questions, responses, seeded>>

\* ------------------------------------------------------ the specifications

\* Every endpoint, requests interleaved with each other, with the connection
\* attempt and with the seeding process.
Next ==
    \/ Connect
    \/ ConnectFail
    \/ SeedTopic(CoreTopicNames)
    \/ SeedQuestion(CoreQDocs)
    \/ \E r \in ReqIds : Health(r)
    \/ \E r \in ReqIds : GetTopics(r)
    \/ \E r \in ReqIds : TopicsRespond(r)
    \/ \E r \in ReqIds : QuestionsArrive(r, CoreParams)
    \/ \E r \in ReqIds : QuestionsContinue(r)
    \/ \E r \in ReqIds : QuestionsRespond(r)
    \/ \E r \in ReqIds : SubmitArrive(r, CoreBodies)
    \/ \E r \in ReqIds : SubmitScore(r)
    \/ \E r \in ReqIds : SubmitRespond(r)

Spec == Init /\ [][Next]_vars

\* GET /questions/:topic over all the parameters and topic names.
NextQuestions ==
    \/ Connect
    \/ ConnectFail
    \/ SeedTopic(TopicNames)
    \/ SeedQuestion(QDocs)
    \/ \E r \in ReqIds : QuestionsArrive(r, Params)
    \/ \E r \in ReqIds : QuestionsContinue(r)
    \/ \E r \in ReqIds : QuestionsRespond(r)

SpecQuestions == Init /\ [][NextQuestions]_vars

\* POST /submit over all the bodies.
NextSubmit ==
    \/ Connect
    \/ ConnectFail
    \/ SeedQuestion(QDocs)
    \/ \E r \in ReqIds : SubmitArrive(r, Bodies)
    \/ \E r \in ReqIds : SubmitScore(r)
    \/ \E r \in ReqIds : SubmitRespond(r)

SpecSubmit == Init /\ [][NextSubmit]_vars

\* ------------------------------------------------------------ the claims

Done(r) == rq[r].res.status # 0

\* The parameter p, percent-decoded and trimmed, is the name T up to letter case.
ParamNames(T, p) == \E d \in DecodeURIComponent(p) : EqIgnoreCase(Trim(d), T)

\* The Response documents request r persisted.
DocsOf(r) == {d \in responses : d.rid = r}

\* C1 (as claimed): for a topic T stored when the existence check ran and a
\* parameter naming T up to letter case, GET /questions/<param> answers 200
\* with exactly the Questions whose topic is T up to letter case, when there
\* are any.  Store failures are left aside; the Questions are those stored
\* when the handler's second query ran.
C1_ExactlyTheTopicsQuestions ==
    \A r \in ReqIds :
      (rq[r].kind = "questions" /\ Done(r) /\ rq[r].res.details # "MongoError") =>
        \A T \in rq[r].loc.topicsAtCheck :
          LET ofT == {q \in rq[r].loc.questionsAtQuery : EqIgnoreCase(q.topic, T)}
          IN  (ParamNames(T, rq[r].param) /\ ofT # {}) =>
                (rq[r].res.status = 200 /\ rq[r].res.docs = ofT)

\* C2 (as claimed): a GET /questions/<param> whose parameter names no stored
\* topic is answered 404 "Topic not found" with suggestions equal to the
\* stored topic names at the time of the response.  Store failures are left
\* aside.
C2_UnknownTopicSuggestsAll ==
    [][\A r \in ReqIds :
         (/\ ~Done(r) /\ rq'[r].res.status # 0
          /\ rq'[r].kind = "questions"
          /\ rq'[r].res.details # "MongoError"
          /\ \A T \in topics' : ~ParamNames(T, rq'[r].param)) =>
           (/\ rq'[r].res.status = 404
            /\ rq'[r].res.error = "Topic not found"
            /\ rq'[r].res.names = topics')]_vars

\* C3 (as claimed): a POST /submit that passes the field validation and whose
\* topic no stored Question has (up to letter case) is answered 404 and
\* persists nothing.  Store failures are left aside.
C3_NoQuestionsIs404 ==
    \A r \in ReqIds :
      (/\ rq[r].kind = "submit" /\ Done(r)
       /\ ~MissingFields(rq[r].body)
       /\ rq[r].res.details # "MongoError"
       /\ \A t \in rq[r].body.topic : \A q \in questions : ~EqIgnoreCase(q.topic, t)) =>
        (rq[r].res.status = 404 /\ DocsOf(r) = {})

\* The submitted value for q is exactly the letter of the first position of
\* q's answer among its first four options.
LetterMatches(answers, q) ==
    \E i \in 1..4 :
      /\ i <= Len(q.options) /\ q.options[i] = q.answer
      /\ \A k \in 1..(i - 1) : q.options[k] # q.answer
      /\ answers[q.id] = JStr(OptionKeys[i])

\* p is score/total*100 rounded to the nearest integer, halves up.
RoundsTo(p, score, total) ==
    200 * score - total < 2 * total * p /\ 2 * total * p <= 200 * score + total

\* C4: every 200 of POST /submit reports total = the number of Questions
\* fetched, score = the number of them whose submitted value is exactly the
\* letter of the answer's position, percentage = round(score/total*100), with
\* 0 <= score <= total and 0 <= percentage <= 100; for the one Question
\* ["2","3","4","5"] with answer "4", "C" gives 1 and 100, "A" gives 0 and 0.
C4_ScoreTotalPercentage ==
    \A r \in ReqIds :
      (rq[r].kind = "submit" /\ rq[r].res.status = 200) =>
        \A a \in rq[r].body.answers :
          LET qs == rq[r].loc.questions
              res == rq[r].res
          IN  /\ res.total = Cardinality(qs)
              /\ Len(res.results) = res.total
              /\ res.score = Cardinality({q \in qs : LetterMatches(a, q)})
              /\ RoundsTo(res.percentage, res.score, res.total)
              /\ 0 <= res.score /\ res.score <= res.total
              /\ 0 <= res.percentage /\ res.percentage <= 100
              /\ (qs = {Q1} /\ a[1] = JStr("C")) =>
                   (res.score = 1 /\ res.total = 1 /\ res.percentage = 100)
              /\ (qs = {Q1} /\ a[1] = JStr("A")) =>
                   (res.score = 0 /\ res.percentage = 0)

\* C4's case: the documentation's two submissions, both answered.
C4_Witness ==
    \E r1, r2 \in ReqIds :
      /\ rq[r1].kind = "submit" /\ rq[r1].res.status = 200
      /\ rq[r1].loc.questions = {Q1}
      /\ \E a \in rq[r1].body.answers : a[1] = JStr("C")
      /\ rq[r1].res.score = 1 /\ rq[r1].res.percentage = 100
      /\ rq[r2].kind = "submit" /\ rq[r2].res.status = 200
      /\ rq[r2].loc.questions = {Q1}
      /\ \E a \in rq[r2].body.answers : a[1] = JStr("A")
      /\ rq[r2].res.score = 0 /\ rq[r2].res.percentage = 0

\* C5: a POST /submit whose body lacks user, topic or answers is answered 400
\* "Missing required fields", issues no store operation and persists nothing.
C5_MissingFieldsRejected ==
    \A r \in ReqIds :
      (/\ rq[r].kind = "submit"
       /\ (rq[r].body.user = JAbsent \/ rq[r].body.topic = {} \/ rq[r].body.answers = {})) =>
        (/\ rq[r].res.status = 400
         /\ rq[r].res.error = "Missing required fields"
         /\ rq[r].loc.queries = 0
         /\ DocsOf(r) = {})

\* C5's case: the empty body and a body lacking only answers, both rejected.
C5_Witness ==
    \E r1, r2 \in ReqIds :
      /\ rq[r1].kind = "submit" /\ rq[r1].body = EmptyBody /\ rq[r1].res.status = 400
      /\ rq[r2].kind = "submit" /\ rq[r2].res.status = 400
      /\ rq[r2].body.user # JAbsent /\ rq[r2].body.topic # {} /\ rq[r2].body.answers = {}

\* C6 (as claimed): no request is answered in an execution in which the
\* connection attempt fails.
C6_NothingAnsweredBeforeFailure ==
    ~(readyState = 0 /\ \E r \in ReqIds : Done(r))

\* C6 (amended): when the connection attempt fails the process ends in the
\* same step, and from then on it answers no request and persists nothing;
\* while the connection is not open, only requests that need no store
\* operation have been answered.
C6_FailureEndsTheProcess ==
    /\ [](readyState # 1 => \A r \in ReqIds : Done(r) => rq[r].loc.queries = 0)
    /\ [][/\ readyState' = 0 => ~running'
          /\ ~running => (rq' = rq /\ responses' = responses)]_vars

\* C6's case: the attempt has failed after a health check was answered
\* "Disconnected".
C6_Witness ==
    /\ readyState = 0 /\ ~running
    /\ \E r \in ReqIds :
         rq[r].kind = "health" /\ rq[r].res.status = 200
         /\ rq[r].res.database = "Disconnected"

\* The handler of request r has scored its answers.
Scored(r) == rq[r].kind = "submit" /\ rq[r].loc.responseAnswers # <<>>

Flags(ra) == [i \in 1..Len(ra) |-> ra[i].correct]

C8_MissingEntryStillCompletes ==
    \A r \in ReqIds :
      (/\ rq[r].kind = "submit" /\ Done(r)
       /\ ~MissingFields(rq[r].body)
       /\ rq[r].loc.questions # {}
       /\ rq[r].res.details # "MongoError"
       /\ \E a \in rq[r].body.answers :
            /\ \E q \in rq[r].loc.questions : a[q.id] = JAbsent
            /\ \A q \in rq[r].loc.questions : a[q.id].t \in {"absent", "str"}) =>
        (/\ rq[r].res.status = 200
         /\ rq[r].res.score = rq[r].loc.score
         /\ Cardinality(DocsOf(r)) = 1
         /\ \A d \in DocsOf(r) : \A a \in rq[r].body.answers :
              \A q \in rq[r].loc.questions :
                a[q.id] = JAbsent =>
                  \E i \in 1..Len(d.answers) :
                    /\ d.answers[i].question = q.question
                    /\ d.answers[i].selected = ""
                    /\ d.answers[i].correct = FALSE)

\* q's answer is none of its options, or first occurs at index 4 or higher.
Unanswerable(q) == \A i \in 1..Len(q.options) : q.options[i] = q.answer => i > 4

\* C9: a Question whose answer is none of its options, or first occurs at
\* index 4 or higher, is marked incorrect whatever was submitted for it, and
\* adds nothing to the score.
C9_UnanswerableNeverCorrect ==
    \A r \in ReqIds :
      Scored(r) =>
        LET ra == rq[r].loc.responseAnswers IN
        /\ Len(ra) = Cardinality(rq[r].loc.questions)
        /\ \A q \in rq[r].loc.questions :
             Unanswerable(q) =>
               \A i \in 1..Len(ra) : ra[i].question = q.question => ~ra[i].correct
        /\ rq[r].loc.score <=
             Cardinality({q \in rq[r].loc.questions : ~Unanswerable(q)})
        /\ rq[r].res.status = 200 =>
             (/\ rq[r].res.results = ra
              /\ rq[r].res.score = rq[r].loc.score)

\* C9's case: an answered submission that covered Q2 (answer not an option,
\* a number submitted) and Q3 (answer at index 4, a letter submitted).
C9_Witness ==
    \E r \in ReqIds :
      /\ Scored(r) /\ rq[r].res.status = 200
      /\ {Q2, Q3} \subseteq rq[r].loc.questions
      /\ \E a \in rq[r].body.answers : a[2] = JNum("7") /\ a[3] = JStr("E")
      /\ \A i \in 1..Len(rq[r].res.results) :
           rq[r].res.results[i].question \in {"Q2", "Q3"} =>
             ~rq[r].res.results[i].correct

C10_Stored ==
    /\ \A r \in ReqIds :
         /\ (rq[r].kind = "submit" /\ rq[r].res.status = 200) =>
              (/\ Cardinality(DocsOf(r)) = 1
               /\ \A d \in DocsOf(r) : d.score = rq[r].res.score)
         /\ (rq[r].kind = "submit" /\ rq[r].res.status \in {400, 404, 500}) =>
              DocsOf(r) = {}
         /\ rq[r].kind # "submit" => DocsOf(r) = {}
    /\ \A d \in responses :
         d.score = Cardinality({i \in 1..Len(d.answers) : d.answers[i].correct})
    /\ (\A r \in ReqIds : rq[r].pc \in {"idle", "done"}) =>
         Cardinality(responses) =
           Cardinality({r \in ReqIds : rq[r].kind = "submit" /\ rq[r].res.status = 200})

C10_Step ==
    /\ responses \subseteq responses'
    /\ rq' # rq => (topics' = topics /\ questions' = questions)

\* C10: the Response collection holds exactly one document per submission
\* answered 200 and none for one answered 400, 404 or 500; a stored score is
\* the number of its entries marked correct and the score sent to the client;
\* no step of any request changes the Topic or Question collection or a
\* Response already stored.
C10_OneResponsePerSuccess == []C10_Stored /\ [][C10_Step]_vars

\* C10's case: all requests answered, one submission 200 and one 500, one
\* document stored.
C10_Witness ==
    /\ \A r \in ReqIds : rq[r].pc = "done"
    /\ \E r1, r2 \in ReqIds :
         /\ rq[r1].kind = "submit" /\ rq[r1].res.status = 200
         /\ rq[r2].kind = "submit" /\ rq[r2].res.status = 500
    /\ Cardinality(responses) = 1

====
